---- MODULE Spec2Model ----
(***************************************************************************)
(* The HTTP message codec of src/src/lib.rs: Message::parse,               *)
(* Message::into_bytes and MessageBuilder.                                 *)
(*                                                                         *)
(* Text and byte buffers are sequences of one-character strings.  The      *)
(* characters of a body or a payload are ASCII, so a char and a byte      *)
(* coincide there.  InvalidByte stands for a byte that is not valid UTF-8, *)
(* and a White_Space character above U+00FF is one element of a status or *)
(* header line, as it is one char of the decoded String.                  *)
(***************************************************************************)
EXTENDS Naturals, Integers, Sequences, FiniteSets, TLC

VARIABLES
    pc,              \* position in parse / into_bytes / the builder chain
    buffer,          \* parse: the input bytes (the parameter `buffer`)
    text,            \* parse: the String `buffer` decoded from the input
    cursor,          \* parse: the lines not yet consumed (buffer.lines())
    request_line,    \* parse: (method, target, version) of the status line
    headers_text,    \* parse: the String `headers` of lib.rs:188
    headers,         \* parse: the Vec<Header> of lib.rs:199
    content_length,  \* parse: Option<usize>
    frames,          \* parse: the frames pushed so far
    result,          \* parse: what parse returned
    message,         \* into_bytes: self
    next_frame,      \* into_bytes: index of the next frame of the for loop
    info,            \* into_bytes: the String `info`
    payload,         \* into_bytes: the Vec `payload`
    response,        \* into_bytes: the returned bytes
    builder,         \* MessageBuilder: the builder value
    calls            \* MessageBuilder: the calls made so far (history)

vars ==
    <<pc, buffer, text, cursor, request_line, headers_text, headers, content_length,
      frames, result, message, next_frame, info, payload, response, builder,
      calls>>

parseVars ==
    <<buffer, text, cursor, request_line, headers_text, headers, content_length,
      frames, result>>

serVars ==
    <<message, next_frame, info, payload, response>>

buildVars ==
    <<builder, calls>>

(***************************************************************************)
(* Option and Result values.                                               *)
(***************************************************************************)
None ==
    [kind |-> "None"]

Some(v) ==
    [kind |-> "Some", val |-> v]

Malformed ==
    [kind |-> "Err", err |-> "Malformed"]

\* An unwrap() on an Err: the call does not return.
Panic ==
    [kind |-> "Panic"]

Ok(v) ==
    [kind |-> "Ok", val |-> v]

\* No value yet (a local not yet assigned, a call not yet returned).
Unset ==
    [kind |-> "Unset"]

(***************************************************************************)
(* Characters.                                                             *)
(***************************************************************************)
UpperLetters ==
    <<"A","B","C","D","E","F","G","H","I","J","K","L","M",
      "N","O","P","Q","R","S","T","U","V","W","X","Y","Z">>

LowerLetters ==
    <<"a","b","c","d","e","f","g","h","i","j","k","l","m",
      "n","o","p","q","r","s","t","u","v","w","x","y","z">>

DecimalDigits ==
    <<"0","1","2","3","4","5","6","7","8","9">>

\* A byte that String::from_utf8 rejects.
InvalidByte ==
    "<FF>"

\* U+000B, U+0085 and U+00A0: the White_Space characters below U+0100 that
\* have no escape in a string of the model.
VerticalTab ==
    ""

NextLine ==
    ""

NoBreakSpace ==
    " "

\* The White_Space characters above U+00FF, which no string of the model can
\* hold: each is the one-character string that names it.
EmSpace ==
    "<U+2003>"

IdeographicSpace ==
    "<U+3000>"

WideWhiteSpace ==
    {"<U+1680>", "<U+2000>", "<U+2001>", "<U+2002>", EmSpace, "<U+2004>",
     "<U+2005>", "<U+2006>", "<U+2007>", "<U+2008>", "<U+2009>", "<U+200A>",
     "<U+2028>", "<U+2029>", "<U+202F>", "<U+205F>", IdeographicSpace}

\* char::is_whitespace: U+0009 to U+000D, U+0020, U+0085, U+00A0, U+1680,
\* U+2000 to U+200A, U+2028, U+2029, U+202F, U+205F and U+3000.
IsWhitespace(c) ==
    \/ c \in {"\t", "\n", VerticalTab, "\f", "\r", " ", NextLine, NoBreakSpace}
    \/ c \in WideWhiteSpace

IsDigit(c) ==
    \E i \in 1..10 : DecimalDigits[i] = c

DigitVal(c) ==
    (CHOOSE i \in 1..10 : DecimalDigits[i] = c) - 1

to_ascii_lowercase_char(c) ==
    IF \E i \in 1..26 : UpperLetters[i] = c
    THEN LowerLetters[CHOOSE i \in 1..26 : UpperLetters[i] = c]
    ELSE c

to_ascii_uppercase_char(c) ==
    IF \E i \in 1..26 : LowerLetters[i] = c
    THEN UpperLetters[CHOOSE i \in 1..26 : LowerLetters[i] = c]
    ELSE c

to_ascii_lowercase(s) ==
    [i \in 1..Len(s) |-> to_ascii_lowercase_char(s[i])]

to_ascii_uppercase(s) ==
    [i \in 1..Len(s) |-> to_ascii_uppercase_char(s[i])]

(***************************************************************************)
(* The str and iterator operations the codec uses.                         *)
(***************************************************************************)
Min(a, b) ==
    IF a <= b THEN a ELSE b

\* Iterator::take and Iterator::skip over the chars of a string.
Take(s, n) ==
    SubSeq(s, 1, Min(n, Len(s)))

Skip(s, n) ==
    SubSeq(s, Min(n, Len(s)) + 1, Len(s))

\* collect::<String>() of an iterator of string slices.
RECURSIVE Concat(_)
Concat(pieces) ==
    IF pieces = <<>> THEN <<>> ELSE Head(pieces) \o Concat(Tail(pieces))

\* Index of the first occurrence of pat in s, 0 when there is none.
FindStr(s, pat) ==
    LET hits == {i \in 1..(Len(s) - Len(pat) + 1) :
                    SubSeq(s, i, i + Len(pat) - 1) = pat}
    IN  IF hits = {} THEN 0 ELSE CHOOSE i \in hits : \A j \in hits : i <= j

\* str::split(pat): the pieces between the non-overlapping matches of pat,
\* the empty ones included.
RECURSIVE Split(_, _)
Split(s, pat) ==
    LET i == FindStr(s, pat)
    IN  IF i = 0
        THEN <<s>>
        ELSE <<SubSeq(s, 1, i - 1)>> \o Split(SubSeq(s, i + Len(pat), Len(s)), pat)

\* str::split_inclusive('\n'): every piece but possibly the last ends in \n.
RECURSIVE SplitInclusive(_)
SplitInclusive(s) ==
    LET i == FindStr(s, <<"\n">>)
    IN  IF s = <<>>
        THEN <<>>
        ELSE IF i = 0
        THEN <<s>>
        ELSE <<SubSeq(s, 1, i)>> \o SplitInclusive(SubSeq(s, i + 1, Len(s)))

\* The closure of str::lines: strip one \n, and then one \r before it.
LinesMap(line) ==
    IF line # <<>> /\ line[Len(line)] = "\n"
    THEN LET l == SubSeq(line, 1, Len(line) - 1)
         IN  IF l # <<>> /\ l[Len(l)] = "\r"
             THEN SubSeq(l, 1, Len(l) - 1)
             ELSE l
    ELSE line

\* str::lines: lines end at \n or \r\n; a last line without \n is kept as it is.
Lines(s) ==
    LET raw == SplitInclusive(s)
    IN  [i \in 1..Len(raw) |-> LinesMap(raw[i])]

\* str::trim_start.
RECURSIVE TrimStart(_)
TrimStart(s) ==
    IF s # <<>> /\ IsWhitespace(s[1]) THEN TrimStart(Tail(s)) ELSE s

\* Length of the longest prefix of s without whitespace.
RECURSIVE WordLen(_)
WordLen(s) ==
    IF s = <<>> \/ IsWhitespace(s[1]) THEN 0 ELSE 1 + WordLen(Tail(s))

\* str::split_whitespace.
RECURSIVE SplitWhitespace(_)
SplitWhitespace(s) ==
    LET t == TrimStart(s)
        n == WordLen(t)
    IN  IF t = <<>>
        THEN <<>>
        ELSE <<SubSeq(t, 1, n)>> \o SplitWhitespace(SubSeq(t, n + 1, Len(t)))

\* The digits of an unsigned parse: a leading + is allowed when digits follow.
UnsignedDigits(s) ==
    IF s # <<>> /\ s[1] = "+" THEN Tail(s) ELSE s

RECURSIVE StripZeros(_)
StripZeros(d) ==
    IF Len(d) > 1 /\ d[1] = "0" THEN StripZeros(Tail(d)) ELSE d

\* Whether the digit string a (no leading zeros) is a number above the digit
\* string b.
DigitsAbove(a, b) ==
    \/ Len(a) > Len(b)
    \/ /\ Len(a) = Len(b)
       /\ \E i \in 1..Len(a) :
            /\ DigitVal(a[i]) > DigitVal(b[i])
            /\ \A j \in 1..(i - 1) : a[j] = b[j]

RECURSIVE DigitsValue(_, _)
DigitsValue(d, acc) ==
    IF d = <<>> THEN acc ELSE DigitsValue(Tail(d), acc * 10 + DigitVal(d[1]))

\* A value above 2147483647, the largest integer of the model checker, held
\* exactly: val is the decimal digits of the value, without leading zeros.
SomeWide(digits) ==
    [kind |-> "Some", val |-> digits, wide |-> TRUE]

\* str::parse::<uN>() with N's largest value given in digits: None on an
\* empty string, a lone sign, a non-digit or an overflow, the exact value
\* otherwise.
ParseUnsigned(s, maxDigits) ==
    LET d == UnsignedDigits(s)
        z == StripZeros(d)
    IN  IF d = <<>> \/ \E i \in 1..Len(d) : ~IsDigit(d[i])
        THEN None
        ELSE IF DigitsAbove(z, maxDigits)
        THEN None
        ELSE IF DigitsAbove(z, <<"2","1","4","7","4","8","3","6","4","7">>)
        THEN SomeWide(z)
        ELSE Some(DigitsValue(z, 0))

\* The number of characters Iterator::take(l) yields out of n, l being the
\* value of an Option<usize>: the smaller of l and n.
TakeLen(l, n) ==
    IF "wide" \in DOMAIN l THEN n ELSE Min(l.val, n)

\* u8::MAX and usize::MAX (64 bit).
parse_u8(s) ==
    ParseUnsigned(s, <<"2","5","5">>)

parse_usize(s) ==
    ParseUnsigned(s, <<"1","8","4","4","6","7","4","4","0","7","3","7","0","9","5","5","1","6","1","5">>)

\* Display of an unsigned integer.
RECURSIVE ToDecimal(_)
ToDecimal(n) ==
    IF n < 10
    THEN <<DecimalDigits[n + 1]>>
    ELSE ToDecimal(n \div 10) \o <<DecimalDigits[(n % 10) + 1]>>

(***************************************************************************)
(* Method, Version, Code.                                                  *)
(***************************************************************************)
\* The variants of Method with their Debug names.
MethodDebug ==
    [Get |-> <<"G","e","t">>, Head |-> <<"H","e","a","d">>, Post |-> <<"P","o","s","t">>, Put |-> <<"P","u","t">>,
     Delete |-> <<"D","e","l","e","t","e">>, Connect |-> <<"C","o","n","n","e","c","t">>, Options |-> <<"O","p","t","i","o","n","s">>,
     Trace |-> <<"T","r","a","c","e">>, Patch |-> <<"P","a","t","c","h">>]

Method ==
    DOMAIN MethodDebug

\* The match arms of TryFrom<&str> for Method.
MethodArms ==
    [Get |-> <<"g","e","t">>, Head |-> <<"h","e","a","d">>, Post |-> <<"p","o","s","t">>, Put |-> <<"p","u","t">>,
     Delete |-> <<"d","e","l","e","t","e">>, Connect |-> <<"c","o","n","n","e","c","t">>, Options |-> <<"o","p","t","i","o","n","s">>,
     Trace |-> <<"t","r","a","c","e">>, Patch |-> <<"p","a","t","c","h">>]

Method_try_from(data) ==
    LET lower == to_ascii_lowercase(data)
    IN  IF \E m \in Method : MethodArms[m] = lower
        THEN Ok(CHOOSE m \in Method : MethodArms[m] = lower)
        ELSE Malformed

Method_fmt(m) ==
    to_ascii_uppercase(MethodDebug[m])

Version_fmt(v) ==
    ToDecimal(v.major) \o <<".">> \o ToDecimal(v.minor)

\* enum Code, its discriminant (u16::from) and its Display (the Debug name).
Code ==
    {"Success"}

Code_u16(c) ==
    CASE c = "Success" -> 200

Code_fmt(c) ==
    CASE c = "Success" -> <<"S","u","c","c","e","s","s">>

(***************************************************************************)
(* Message::parse_status_line and Message::parse_headers.                  *)
(***************************************************************************)
\* The text between the first and the second "HTTP/" of the version token,
\* split at every ".": data.get(2)?.split("HTTP/") ... .get(1)?.split(".").
VersionFields(token) ==
    LET parts == Split(token, <<"H","T","T","P","/">>)
    IN  IF Len(parts) < 2 THEN None ELSE Some(Split(parts[2], <<".">>))

parse_status_line(line) ==
    LET data == SplitWhitespace(line)
    IN  IF Len(data) < 1 THEN None
        ELSE IF Method_try_from(data[1]).kind # "Ok" THEN None
        ELSE IF Len(data) < 2 THEN None
        ELSE IF Len(data) < 3 THEN None
        ELSE LET fields == VersionFields(data[3])
             IN  IF fields.kind = "None" THEN None
                 ELSE IF parse_u8(fields.val[1]).kind = "None" THEN Panic
                 ELSE IF Len(fields.val) < 2 THEN None
                 ELSE IF parse_u8(fields.val[2]).kind = "None" THEN Panic
                 ELSE Some([method  |-> Method_try_from(data[1]).val,
                            target  |-> data[2],
                            version |-> [major |-> parse_u8(fields.val[1]).val,
                                         minor |-> parse_u8(fields.val[2]).val]])

\* The body of the for loop of parse_headers on one line: the Header it
\* pushes.
HeaderOfLine(line) ==
    LET pieces == Split(line, <<":">>)
    IN  [name  |-> Concat(Take(pieces, 1)),
         value |-> TrimStart(Concat(Skip(pieces, 1)))]

\* parse_headers with each Header put in front of the list instead of pushed
\* at its end.
parse_headers_reversed(block) ==
    LET lines == Lines(block)
        parsed == [i \in 1..Len(lines) |-> HeaderOfLine(lines[Len(lines) + 1 - i])]
    IN  IF \E i \in 1..Len(parsed) :
              Len(parsed[i].name) = 0 \/ Len(parsed[i].value) = 0
        THEN None
        ELSE Some(parsed)

parse_headers(block) ==
    LET lines == Lines(block)
        parsed == [i \in 1..Len(lines) |-> HeaderOfLine(lines[i])]
    IN  IF \E i \in 1..Len(parsed) :
              Len(parsed[i].name) = 0 \/ Len(parsed[i].value) = 0
        THEN None
        ELSE Some(parsed)

(***************************************************************************)
(* Messages.                                                               *)
(***************************************************************************)
HeadersFrame(hs) ==
    [kind |-> "Headers", headers |-> hs]

DataFrame(bytes) ==
    [kind |-> "Data", payload |-> bytes]

Request(method, target, version, fs) ==
    [kind |-> "Request", method |-> method, target |-> target,
     version |-> version, frames |-> fs]

Response(version, code, fs) ==
    [kind |-> "Response", version |-> version, code |-> code, frames |-> fs]

Header(name, value) ==
    [name |-> name, value |-> value]

(***************************************************************************)
(* Message::parse, one action per stage of its body.                       *)
(***************************************************************************)
\* String::from_utf8 of the input.
from_utf8(bytes) ==
    IF \E i \in 1..Len(bytes) : bytes[i] = InvalidByte THEN Malformed ELSE Ok(bytes)

\* lib.rs:173-181: decode the input, refuse the empty one, start the line
\* cursor.
ParseBegin ==
    /\ pc = "parse"
    /\ IF from_utf8(buffer).kind # "Ok" \/ Len(buffer) = 0
       THEN /\ result' = Malformed
            /\ pc' = "done"
            /\ UNCHANGED <<text, cursor>>
       ELSE /\ text' = from_utf8(buffer).val
            /\ cursor' = Lines(from_utf8(buffer).val)
            /\ pc' = "status"
            /\ UNCHANGED result
    /\ UNCHANGED <<buffer, request_line, headers_text, headers, content_length, frames>>
    /\ UNCHANGED <<serVars, buildVars>>

\* lib.rs:184-186: the status line.
ParseStatusLine ==
    /\ pc = "status"
    /\ IF cursor = <<>>
       THEN /\ result' = Malformed
            /\ pc' = "done"
            /\ UNCHANGED <<cursor, request_line>>
       ELSE LET parsed == parse_status_line(Head(cursor))
            IN  /\ cursor' = Tail(cursor)
                /\ IF parsed.kind = "Some"
                   THEN /\ request_line' = parsed.val
                        /\ pc' = "headers"
                        /\ UNCHANGED result
                   ELSE /\ result' = IF parsed.kind = "Panic" THEN Panic ELSE Malformed
                        /\ pc' = "done"
                        /\ UNCHANGED request_line
    /\ UNCHANGED <<buffer, text, headers_text, headers, content_length, frames>>
    /\ UNCHANGED <<serVars, buildVars>>

\* lib.rs:190-197: one turn of the while loop that gathers the header lines.
ReadHeaderLine ==
    /\ pc = "headers"
    /\ IF cursor = <<>>
       THEN /\ pc' = "parse_headers"
            /\ UNCHANGED <<cursor, headers_text>>
       ELSE /\ cursor' = Tail(cursor)
            /\ IF Len(Head(cursor)) = 0
               THEN /\ pc' = "parse_headers"
                    /\ UNCHANGED headers_text
               ELSE /\ headers_text' = headers_text \o Head(cursor) \o <<"\r","\n">>
                    /\ pc' = "headers"
    /\ UNCHANGED <<buffer, text, request_line, headers, content_length, frames, result>>
    /\ UNCHANGED <<serVars, buildVars>>

\* lib.rs:199.
ParseHeaders ==
    /\ pc = "parse_headers"
    /\ IF parse_headers(headers_text).kind = "Some"
       THEN /\ headers' = parse_headers(headers_text).val
            /\ pc' = "content_length"
            /\ UNCHANGED result
       ELSE /\ result' = Malformed
            /\ pc' = "done"
            /\ UNCHANGED headers
    /\ UNCHANGED <<buffer, text, cursor, request_line, headers_text, content_length, frames>>
    /\ UNCHANGED <<serVars, buildVars>>

\* The Content-Length scan without its break: the last such header wins.
ContentLengthIndex_last(hs) ==
    LET hits == {i \in 1..Len(hs) : hs[i].name = <<"C","o","n","t","e","n","t","-","L","e","n","g","t","h">>}
    IN  IF hits = {} THEN 0 ELSE CHOOSE i \in hits : \A j \in hits : i >= j

\* The header the for loop of lib.rs:203-208 stops at: the index of the first
\* header named Content-Length, 0 when there is none.
ContentLengthIndex(hs) ==
    LET hits == {i \in 1..Len(hs) : hs[i].name = <<"C","o","n","t","e","n","t","-","L","e","n","g","t","h">>}
    IN  IF hits = {} THEN 0 ELSE CHOOSE i \in hits : \A j \in hits : i <= j

\* lib.rs:201-214: the Content-Length scan, then the Headers frame.
ScanContentLength ==
    /\ pc = "content_length"
    /\ LET i == ContentLengthIndex(headers)
       IN  IF i # 0 /\ parse_usize(headers[i].value).kind = "None"
           THEN /\ result' = Malformed
                /\ pc' = "done"
                /\ UNCHANGED <<content_length, frames>>
           ELSE /\ content_length' =
                       IF i = 0 THEN None ELSE parse_usize(headers[i].value)
                /\ frames' = Append(<<>>, HeadersFrame(headers))
                /\ pc' = "body"
                /\ UNCHANGED result
    /\ UNCHANGED <<buffer, text, cursor, request_line, headers_text, headers>>
    /\ UNCHANGED <<serVars, buildVars>>

\* lib.rs:217: what is left of the line cursor, collected into one String.
RestOf(lines) ==
    Concat(lines)

\* lib.rs:216-228: the Data frame.
ExtractBody ==
    /\ pc = "body"
    /\ IF content_length.kind = "Some"
       THEN LET rest == RestOf(cursor)
                l == TakeLen(content_length, Len(rest))
            IN  /\ text' = Skip(rest, l)
                /\ cursor' = Lines(Skip(rest, l))
                /\ frames' = Append(frames, DataFrame(Take(rest, l)))
       ELSE UNCHANGED <<text, cursor, frames>>
    /\ pc' = "assemble"
    /\ UNCHANGED <<buffer, request_line, headers_text, headers, content_length, result>>
    /\ UNCHANGED <<serVars, buildVars>>

\* lib.rs:230-238.
Assemble ==
    /\ pc = "assemble"
    /\ result' = Ok(Request(request_line.method, request_line.target,
                            request_line.version, frames))
    /\ pc' = "done"
    /\ UNCHANGED <<buffer, text, cursor, request_line, headers_text, headers,
                   content_length, frames>>
    /\ UNCHANGED <<serVars, buildVars>>

(***************************************************************************)
(* Message::into_bytes, one action per stage of its body.                  *)
(***************************************************************************)
\* lib.rs:131-138: the start line.
BeginLine(m) ==
    IF m.kind = "Request"
    THEN Method_fmt(m.method) \o <<" ">> \o m.target \o <<" ","H","T","T","P","/">>
            \o Version_fmt(m.version) \o <<"\r","\n">>
    ELSE <<"H","T","T","P","/">> \o Version_fmt(m.version) \o <<" ">>
            \o ToDecimal(Code_u16(m.code)) \o <<" ">> \o Code_fmt(m.code) \o <<"\r","\n">>

\* lib.rs:153.
HeaderLine(h) ==
    h.name \o <<":"," ">> \o h.value \o <<"\r","\n">>

RECURSIVE HeaderLines(_)
HeaderLines(hs) ==
    IF hs = <<>> THEN <<>> ELSE HeaderLine(Head(hs)) \o HeaderLines(Tail(hs))

\* lib.rs:129-147.
IntoBytesBegin ==
    /\ pc = "into_bytes"
    /\ info' = BeginLine(message)
    /\ payload' = <<>>
    /\ next_frame' = 1
    /\ pc' = "frames"
    /\ UNCHANGED <<message, response>>
    /\ UNCHANGED <<parseVars, buildVars>>

\* The for loop writing a Data frame's bytes into `info` where the frame
\* stands, instead of buffering them in `payload`.
IntoBytesFrame_interleaved ==
    /\ pc = "frames"
    /\ next_frame <= Len(message.frames)
    /\ LET frame == message.frames[next_frame]
       IN  IF frame.kind = "Headers"
           THEN info' = info \o HeaderLines(frame.headers)
           ELSE info' = info \o frame.payload
    /\ next_frame' = next_frame + 1
    /\ UNCHANGED <<pc, message, payload, response>>
    /\ UNCHANGED <<parseVars, buildVars>>

\* lib.rs:149-161: one turn of the for loop over the frames.
IntoBytesFrame ==
    /\ pc = "frames"
    /\ next_frame <= Len(message.frames)
    /\ LET frame == message.frames[next_frame]
       IN  IF frame.kind = "Headers"
           THEN /\ info' = info \o HeaderLines(frame.headers)
                /\ UNCHANGED payload
           ELSE /\ payload' = payload \o frame.payload
                /\ UNCHANGED info
    /\ next_frame' = next_frame + 1
    /\ UNCHANGED <<pc, message, response>>
    /\ UNCHANGED <<parseVars, buildVars>>

\* lib.rs:163-169.
IntoBytesEnd ==
    /\ pc = "frames"
    /\ next_frame > Len(message.frames)
    /\ response' = info \o <<"\r","\n">> \o payload
    /\ pc' = "serialized"
    /\ UNCHANGED <<message, next_frame, info, payload>>
    /\ UNCHANGED <<parseVars, buildVars>>

(***************************************************************************)
(* MessageBuilder.                                                         *)
(***************************************************************************)
\* lib.rs:307-314.
MessageBuilder_new ==
    [version |-> [major |-> 1, minor |-> 1], code |-> "Success",
     headers |-> <<>>, payload |-> <<>>]

\* lib.rs:316-318.
MessageBuilder_version(b, v) ==
    [b EXCEPT !.version = v]

\* lib.rs:320-322.
MessageBuilder_code(b, c) ==
    [b EXCEPT !.code = c]

\* lib.rs:324-333.
MessageBuilder_header(b, h) ==
    [b EXCEPT !.headers = Append(b.headers, h)]

\* body() replacing the payload instead of extending it.
MessageBuilder_body_replacing(b, bytes) ==
    [b EXCEPT !.payload = bytes]

\* lib.rs:335-344.
MessageBuilder_body(b, bytes) ==
    [b EXCEPT !.payload = b.payload \o bytes]

\* lib.rs:346-369.
MessageBuilder_build(b) ==
    Response(b.version, b.code,
             Append(Append(<<>>, HeadersFrame(b.headers)), DataFrame(b.payload)))

(***************************************************************************)
(* The inputs of the model.                                                *)
(***************************************************************************)
MaxTokens == 4

MaxHeaderLines == 2

MaxLineLen == 3

MaxBodyLen == 3

MaxFrames == 3

MaxCalls == 4

MaxPayloadLen == 2

\* Every sequence over S of length at most n.
SeqsUpTo(S, n) ==
    UNION {[1..k -> S] : k \in 0..n}

RECURSIVE Join(_, _)
Join(pieces, sep) ==
    IF pieces = <<>> THEN <<>>
    ELSE IF Len(pieces) = 1 THEN Head(pieces)
    ELSE Head(pieces) \o sep \o Join(Tail(pieces), sep)

MethodTokens ==
    {<<"G","E","T">>, <<"g","e","t">>, <<"P","o","s","t">>, <<"B","A","D","V","E","R","B">>}

VersionTokens ==
    {<<"H","T","T","P","/","1",".","1">>, <<"H","T","T","P","/","1">>, <<"H","T","T","P","/","a",".","1">>, <<"H","T","T","P","/","1",".","b">>, <<"H","T","T","P","/","2","5","6",".","0">>,
     <<"H","T","T","P","/","1",".","2","5","6">>, <<"H","T","T","P","/">>, <<"H","T","T","P","/",".","1">>, <<"H","T","T","P","/","1",".">>, <<"1",".","1">>, <<"H","T","T","P","/","+","1",".","0">>,
     <<"H","T","T","P","/","-","1",".","0">>, <<"x","H","T","T","P","/","2",".","0">>, <<"H","T","T","P","/","1",".","1",".","1">>, <<"H","T","T","P","/","2","5","5",".","0","9">>,
     <<"H","T","T","P","/","1",".","0","H","T","T","P","/","x">>, <<"h","t","t","p","/","1",".","1">>}

ExtraTokens ==
    {<<"x">>, <<"H","T","T","P","/","9",".","9">>}

TokenSeparators ==
    {<<" ">>, <<"\t"," ">>, <<VerticalTab>>, <<EmSpace>>}

\* A status line of n tokens: a method, a target, a version, then extra ones.
StatusLineOf(m, v, e, n, sep) ==
    Join(SubSeq(<<m, <<"/">>, v>> \o [i \in 1..n |-> e], 1, n), sep)

StatusLines ==
    {StatusLineOf(m, v, e, n, sep) :
        m \in MethodTokens, v \in VersionTokens, e \in ExtraTokens,
        n \in 0..MaxTokens, sep \in TokenSeparators}

GoodStatusLine ==
    <<"G","E","T"," ","/"," ","H","T","T","P","/","1",".","1">>

\* Inputs that vary the status line.
StatusInputs ==
    {s \o <<"\r","\n","\r","\n">> : s \in StatusLines}

NamedHeaderLines ==
    {<<"H","o","s","t",":"," ","l","o","c","a","l","h","o","s","t",":","8","0","8","0">>, <<"a",":"," ","b">>, <<"a",":"," ","c">>, <<"a",":","b",":">>, <<" ",":"," ","b">>,
     <<"N","o","C","o","l","o","n","H","e","r","e">>, <<"a",":"," ">>, <<"C","o","n","t","e","n","t","-","L","e","n","g","t","h",":"," ","0">>}

LineEndings ==
    {<<"\r","\n">>, <<"\n">>}

\* Inputs that vary the header section: up to MaxHeaderLines named lines, with
\* or without the terminating blank line and text after it.
HeaderInputs ==
    {GoodStatusLine \o eol \o Concat([i \in 1..Len(ls) |-> ls[i] \o eol]) \o tail :
        ls \in SeqsUpTo(NamedHeaderLines, MaxHeaderLines),
        eol \in LineEndings,
        tail \in {<<>>, <<"\r","\n">>, <<"\r","\n","a",":"," ","b","\r","\n">>}}

LineAlphabet ==
    {"a", ":", " ", VerticalTab}

\* Inputs with one header line, every text over LineAlphabet up to MaxLineLen.
LineInputs ==
    {GoodStatusLine \o <<"\r","\n">> \o l \o <<"\r","\n","\r","\n">> :
        l \in SeqsUpTo(LineAlphabet, MaxLineLen)}

HeaderBlocks ==
    {<<>>,
     <<"C","o","n","t","e","n","t","-","L","e","n","g","t","h",":"," ","0","\r","\n">>,
     <<"C","o","n","t","e","n","t","-","L","e","n","g","t","h",":"," ","1","\r","\n">>,
     <<"C","o","n","t","e","n","t","-","L","e","n","g","t","h",":"," ","2","\r","\n">>,
     <<"C","o","n","t","e","n","t","-","L","e","n","g","t","h",":","3","\r","\n">>,
     <<"C","o","n","t","e","n","t","-","L","e","n","g","t","h",":"," ","5","\r","\n">>,
     <<"C","o","n","t","e","n","t","-","L","e","n","g","t","h",":"," ","+","2","\r","\n">>,
     <<"C","o","n","t","e","n","t","-","L","e","n","g","t","h",":"," ","-","1","\r","\n">>,
     <<"C","o","n","t","e","n","t","-","L","e","n","g","t","h",":"," ","2"," ","\r","\n">>,
     <<"C","o","n","t","e","n","t","-","L","e","n","g","t","h",":"," ","x","\r","\n">>,
     <<"C","o","n","t","e","n","t","-","L","e","n","g","t","h",":"," ","1",":","0","\r","\n">>,
     <<"C","o","n","t","e","n","t","-","L","e","n","g","t","h",":",VerticalTab,"2","\r","\n">>,
     <<"C","o","n","t","e","n","t","-","L","e","n","g","t","h",":"," ","1","0","0","0","0","0","0","0","0","1","\r","\n">>,
     <<"C","o","n","t","e","n","t","-","L","e","n","g","t","h",":"," ","2","1","4","7","4","8","3","6","4","7","\r","\n">>,
     <<"C","o","n","t","e","n","t","-","L","e","n","g","t","h",":"," ","2","1","4","7","4","8","3","6","4","8","\r","\n">>,
     <<"C","o","n","t","e","n","t","-","L","e","n","g","t","h",":"," ","1","8","4","4","6","7","4","4","0","7","3","7","0","9","5","5","1","6","1","5","\r","\n">>,
     <<"C","o","n","t","e","n","t","-","L","e","n","g","t","h",":"," ","1","8","4","4","6","7","4","4","0","7","3","7","0","9","5","5","1","6","1","6","\r","\n">>,
     <<"c","o","n","t","e","n","t","-","l","e","n","g","t","h",":"," ","2","\r","\n">>,
     <<"C","o","n","t","e","n","t","-","L","e","n","g","t","h"," ",":"," ","2","\r","\n">>,
     <<"a",":"," ","b","\r","\n","C","o","n","t","e","n","t","-","L","e","n","g","t","h",":"," ","1","\r","\n">>,
     <<"C","o","n","t","e","n","t","-","L","e","n","g","t","h",":"," ","1","\r","\n","C","o","n","t","e","n","t","-","L","e","n","g","t","h",":"," ","3","\r","\n">>,
     <<"C","o","n","t","e","n","t","-","L","e","n","g","t","h",":"," ","x","\r","\n","C","o","n","t","e","n","t","-","L","e","n","g","t","h",":"," ","1","\r","\n">>,
     <<"C","o","n","t","e","n","t","-","L","e","n","g","t","h",":"," ","2","\r","\n","C","o","n","t","e","n","t","-","L","e","n","g","t","h",":"," ","x","\r","\n">>,
     <<"c","o","n","t","e","n","t","-","l","e","n","g","t","h",":"," ","x","\r","\n","C","o","n","t","e","n","t","-","L","e","n","g","t","h",":"," ","1","\r","\n">>}

BodyAlphabet ==
    {"a", "b", "\r", "\n"}

\* The texts after the blank line.  None ends in a CR that no LF follows:
\* whether str::lines strips such a CR from the last line depends on the
\* release of the standard library the crate is built with.
Bodies ==
    {b \in SeqsUpTo(BodyAlphabet, MaxBodyLen) : b = <<>> \/ b[Len(b)] # "\r"}

\* Inputs that vary the Content-Length headers and the text after the blank
\* line.
BodyInputs ==
    {GoodStatusLine \o <<"\r","\n">> \o hb \o <<"\r","\n">> \o b :
        hb \in HeaderBlocks, b \in Bodies}

MiscInputs ==
    {<<>>, <<InvalidByte>>, GoodStatusLine \o <<"\r", "\n", InvalidByte>>,
     GoodStatusLine, <<"\r","\n">>, <<"\n">>, <<" ">>,
     <<"G","E","T"," ","/"," ","H","T","T","P","/","1",".","1","\r","\n","C","o","n","t","e","n","t","-","L","e","n","g","t","h",":"," ","5","\r","\n","\r","\n","H","E","L","L","O","E","X","T","R","A">>,
     <<"G","E","T"," ","/"," ","H","T","T","P","/","1",".","1","\r","\n","C","o","n","t","e","n","t","-","L","e","n","g","t","h",":"," ","2">>,
     <<"G","E","T"," ","/"," ","H","T","T","P","/","1",".","1","\r","\n","C","o","n","t","e","n","t","-","L","e","n","g","t","h",":"," ","2","\r","\n","a","b">>,
     <<"G","E","T","\r","/","\r","H","T","T","P","/","1",".","1","\r","\n","a",":"," ","b","\r","c","\r","\n">>,
     <<"G","E","T"," ","/",VerticalTab,"x"," ","H","T","T","P","/","1",".","1","\r","\n","a",":","\t",VerticalTab,"b","\r","\n","\r","\n">>,
     GoodStatusLine \o <<IdeographicSpace>> \o <<"x","\r","\n","\r","\n">>,
     GoodStatusLine \o <<"\r","\n","a",":">> \o <<EmSpace>> \o <<"b","\r","\n","\r","\n">>,
     GoodStatusLine \o <<"\r","\n","a",":">> \o <<IdeographicSpace>> \o <<"\r","\n","\r","\n">>,
     GoodStatusLine \o <<"\r","\n","a",":">> \o <<"<U+2028>", NoBreakSpace, NextLine>> \o <<"b","\r","\n","\r","\n">>}

Inputs ==
    StatusInputs \cup HeaderInputs \cup LineInputs \cup BodyInputs \cup MiscInputs

Versions ==
    {[major |-> 1, minor |-> 1], [major |-> 2, minor |-> 0]}

SampleHeaders ==
    {Header(<<"H","o","s","t">>, <<"x">>), Header(<<"a">>, <<"b">>)}

SampleFrames ==
    {HeadersFrame(<<>>),
     HeadersFrame(<<Header(<<"a">>, <<"b">>)>>),
     HeadersFrame(<<Header(<<"H","o","s","t">>, <<"x">>), Header(<<"a">>, <<"b">>)>>),
     DataFrame(<<>>), DataFrame(<<"a">>), DataFrame(<<"b","c">>)}

\* The messages into_bytes is applied to.
Messages ==
    {Request(m, <<"/">>, [major |-> 1, minor |-> 1], fs) :
        m \in {"Get", "Patch"}, fs \in SeqsUpTo(SampleFrames, MaxFrames)}
    \cup
    {Response(v, "Success", fs) :
        v \in {[major |-> 1, minor |-> 0]}, fs \in SeqsUpTo(SampleFrames, MaxFrames)}

SampleBodies ==
    {<<>>, <<"a">>, <<"b","c">>}

\* The Request messages of the round trip: one Headers frame that ends with
\* a Content-Length header equal to the payload length, and one Data frame.
RoundTripMessages ==
    {Request(m, t, v,
             <<HeadersFrame(hs \o <<Header(<<"C","o","n","t","e","n","t","-","L","e","n","g","t","h">>, ToDecimal(Len(p)))>>),
               DataFrame(p)>>) :
        m \in {"Get", "Post", "Delete"},
        t \in {<<"/">>, <<"/","a">>},
        v \in Versions \cup {[major |-> 0, minor |-> 255]},
        hs \in SeqsUpTo(SampleHeaders, 1),
        p \in SeqsUpTo({"a", "\n"}, MaxPayloadLen)}

(***************************************************************************)
(* Specifications.                                                         *)
(***************************************************************************)
InitParseVars ==
    /\ buffer = <<>>
    /\ text = <<>>
    /\ cursor = <<>>
    /\ request_line = Unset
    /\ headers_text = <<>>
    /\ headers = <<>>
    /\ content_length = None
    /\ frames = <<>>
    /\ result = Unset

InitSerVars ==
    /\ message = Unset
    /\ next_frame = 1
    /\ info = <<>>
    /\ payload = <<>>
    /\ response = <<>>

InitBuildVars ==
    /\ builder = MessageBuilder_new
    /\ calls = <<>>

\* Message::parse on every input.
Init ==
    /\ pc = "parse"
    /\ buffer \in Inputs
    /\ text = <<>>
    /\ cursor = <<>>
    /\ request_line = Unset
    /\ headers_text = <<>>
    /\ headers = <<>>
    /\ content_length = None
    /\ frames = <<>>
    /\ result = Unset
    /\ InitSerVars
    /\ InitBuildVars

Next ==
    \/ ParseBegin
    \/ ParseStatusLine
    \/ ReadHeaderLine
    \/ ParseHeaders
    \/ ScanContentLength
    \/ ExtractBody
    \/ Assemble

Spec ==
    Init /\ [][Next]_vars

\* Message::into_bytes on every message.
InitIntoBytes ==
    /\ pc = "into_bytes"
    /\ message \in Messages
    /\ next_frame = 1
    /\ info = <<>>
    /\ payload = <<>>
    /\ response = <<>>
    /\ InitParseVars
    /\ InitBuildVars

NextIntoBytes ==
    \/ IntoBytesBegin
    \/ IntoBytesFrame
    \/ IntoBytesEnd

SpecIntoBytes ==
    InitIntoBytes /\ [][NextIntoBytes]_vars

\* MessageBuilder: new(), then up to MaxCalls calls, then build().
CallVersion ==
    /\ pc = "builder"
    /\ Len(calls) < MaxCalls
    /\ \E v \in Versions :
        /\ builder' = MessageBuilder_version(builder, v)
        /\ calls' = Append(calls, [op |-> "version", arg |-> v])
    /\ UNCHANGED <<pc, parseVars, serVars>>

CallCode ==
    /\ pc = "builder"
    /\ Len(calls) < MaxCalls
    /\ \E c \in Code :
        /\ builder' = MessageBuilder_code(builder, c)
        /\ calls' = Append(calls, [op |-> "code", arg |-> c])
    /\ UNCHANGED <<pc, parseVars, serVars>>

CallHeader ==
    /\ pc = "builder"
    /\ Len(calls) < MaxCalls
    /\ \E h \in SampleHeaders :
        /\ builder' = MessageBuilder_header(builder, h)
        /\ calls' = Append(calls, [op |-> "header", arg |-> h])
    /\ UNCHANGED <<pc, parseVars, serVars>>

CallBody ==
    /\ pc = "builder"
    /\ Len(calls) < MaxCalls
    /\ \E b \in SampleBodies :
        /\ builder' = MessageBuilder_body(builder, b)
        /\ calls' = Append(calls, [op |-> "body", arg |-> b])
    /\ UNCHANGED <<pc, parseVars, serVars>>

CallBuild ==
    /\ pc = "builder"
    /\ message' = MessageBuilder_build(builder)
    /\ pc' = "built"
    /\ UNCHANGED <<next_frame, info, payload, response>>
    /\ UNCHANGED <<parseVars, buildVars>>

InitBuilder ==
    /\ pc = "builder"
    /\ InitParseVars
    /\ InitSerVars
    /\ InitBuildVars

NextBuilder ==
    \/ CallVersion
    \/ CallCode
    \/ CallHeader
    \/ CallBody
    \/ CallBuild

SpecBuilder ==
    InitBuilder /\ [][NextBuilder]_vars

\* The round trip: into_bytes of a Request, then parse of the bytes.
ParseSerialized ==
    /\ pc = "serialized"
    /\ buffer' = response
    /\ pc' = "parse"
    /\ UNCHANGED <<text, cursor, request_line, headers_text, headers,
                   content_length, frames, result>>
    /\ UNCHANGED <<serVars, buildVars>>

InitRoundTrip ==
    /\ pc = "into_bytes"
    /\ message \in RoundTripMessages
    /\ next_frame = 1
    /\ info = <<>>
    /\ payload = <<>>
    /\ response = <<>>
    /\ InitParseVars
    /\ InitBuildVars

NextRoundTrip ==
    \/ IntoBytesBegin
    \/ IntoBytesFrame
    \/ IntoBytesEnd
    \/ ParseSerialized
    \/ ParseBegin
    \/ ParseStatusLine
    \/ ReadHeaderLine
    \/ ParseHeaders
    \/ ScanContentLength
    \/ ExtractBody
    \/ Assemble

SpecRoundTrip ==
    InitRoundTrip /\ [][NextRoundTrip]_vars

(***************************************************************************)
(* What the properties are stated in: the input as its reader sees it.     *)
(***************************************************************************)
\* Index of the first blank line after the status line, Len(ls) + 1 when there
\* is none.
FirstBlank(ls) ==
    LET blanks == {i \in 2..Len(ls) : ls[i] = <<>>}
    IN  IF blanks = {} THEN Len(ls) + 1 ELSE CHOOSE i \in blanks : \A j \in blanks : i <= j

\* The lines between the status line and the first blank line (or the end).
HeaderLinesOf(bytes) ==
    SubSeq(Lines(bytes), 2, FirstBlank(Lines(bytes)) - 1)

\* The lines after the first blank line.
BodyLinesOf(bytes) ==
    SubSeq(Lines(bytes), FirstBlank(Lines(bytes)) + 1, Len(Lines(bytes)))

\* The input text after the header-terminating blank line, every character of
\* it kept.
RawRemainder(bytes) ==
    LET raw == SplitInclusive(bytes)
    IN  Concat(SubSeq(raw, FirstBlank(Lines(bytes)) + 1, Len(raw)))

\* The text of a line before its first colon, and the text after it.
BeforeColon(line) ==
    IF FindStr(line, <<":">>) = 0 THEN line ELSE SubSeq(line, 1, FindStr(line, <<":">>) - 1)

AfterColon(line) ==
    IF FindStr(line, <<":">>) = 0 THEN <<>> ELSE SubSeq(line, FindStr(line, <<":">>) + 1, Len(line))

RECURSIVE TrimEnd(_)
TrimEnd(s) ==
    IF s # <<>> /\ IsWhitespace(s[Len(s)]) THEN TrimEnd(SubSeq(s, 1, Len(s) - 1)) ELSE s

Trim(s) ==
    TrimEnd(TrimStart(s))

\* The index of the first header of hs with the given name, 0 when none has it.
FirstNamed(hs, name) ==
    IF \A i \in 1..Len(hs) : hs[i].name # name
    THEN 0
    ELSE CHOOSE i \in 1..Len(hs) :
            hs[i].name = name /\ \A j \in 1..(i - 1) : hs[j].name # name

\* parse has returned a Message.
Parsed ==
    pc = "done" /\ result.kind = "Ok"

RECURSIVE AllHeaders(_)
AllHeaders(fs) ==
    IF fs = <<>> THEN <<>>
    ELSE (IF Head(fs).kind = "Headers" THEN Head(fs).headers ELSE <<>>)
            \o AllHeaders(Tail(fs))

RECURSIVE AllData(_)
AllData(fs) ==
    IF fs = <<>> THEN <<>>
    ELSE (IF Head(fs).kind = "Data" THEN Head(fs).payload ELSE <<>>)
            \o AllData(Tail(fs))

(***************************************************************************)
(* C1                                                                      *)
(***************************************************************************)
\* C1: a Request with one Headers frame (holding a Content-Length header equal
\* to the payload length) and one Data frame, serialized by into_bytes and
\* parsed back, yields the same method, target, version, header list and
\* payload bytes.
C1_RoundTrip ==
    pc = "done" =>
        /\ result.kind = "Ok"
        /\ result.val.method = message.method
        /\ result.val.target = message.target
        /\ result.val.version = message.version
        /\ result.val.frames = message.frames

(***************************************************************************)
(* C2                                                                      *)
(***************************************************************************)
\* The first line has a recognised method, a target and a version token whose
\* major or minor field after HTTP/ is absent or is no unsigned 8-bit integer.
BadVersionField(bytes) ==
    LET data == SplitWhitespace(Lines(bytes)[1])
        after == Split(data[3], <<"H","T","T","P","/">>)
        fields == Split(after[2], <<".">>)
    IN  /\ Lines(bytes) # <<>>
        /\ Len(data) >= 3
        /\ Method_try_from(data[1]).kind = "Ok"
        /\ Len(after) >= 2
        /\ \/ Len(fields) < 2
           \/ parse_u8(fields[1]).kind = "None"
           \/ parse_u8(fields[2]).kind = "None"

\* C2: on an input whose version token has a major or minor field that is
\* absent or does not parse as an unsigned 8-bit integer, parse returns
\* Malformed: it neither panics nor returns a Message.
C2_BadVersionIsMalformed ==
    (pc = "done" /\ from_utf8(buffer).kind = "Ok" /\ BadVersionField(buffer))
        => result = Malformed

(***************************************************************************)
(* C3                                                                      *)
(***************************************************************************)
\* C3: with a valid Content-Length of L, the payload of the Data frame is the
\* first min(L, available) characters of the input text that follows the
\* header-terminating blank line, CR and LF characters included.
C3_PayloadIsRawPrefix ==
    (Parsed /\ content_length.kind = "Some") =>
        /\ Len(result.val.frames) = 2
        /\ result.val.frames[2].kind = "Data"
        /\ result.val.frames[2].payload = Take(RawRemainder(buffer),
                 TakeLen(content_length, Len(RawRemainder(buffer))))

(***************************************************************************)
(* C4                                                                      *)
(***************************************************************************)
\* C4: the name of every parsed Header is the text of its line before the
\* first colon and its value is everything after that colon, later colons
\* included, with only the leading whitespace removed.
C4_ValueKeepsColons ==
    Parsed =>
        LET hs == result.val.frames[1].headers
            ls == HeaderLinesOf(buffer)
        IN  /\ Len(hs) = Len(ls)
            /\ \A i \in 1..Len(hs) :
                /\ hs[i].name = BeforeColon(ls[i])
                /\ hs[i].value = TrimStart(AfterColon(ls[i]))

(***************************************************************************)
(* C5                                                                      *)
(***************************************************************************)
\* A header line with no colon, or with only whitespace before or after its
\* first colon.
EmptyNameOrValue(line) ==
    \/ FindStr(line, <<":">>) = 0
    \/ Trim(BeforeColon(line)) = <<>>
    \/ Trim(AfterColon(line)) = <<>>

\* C5: every Header of a parsed Message has a name and a value that are not
\* empty after trimming; a header line with no colon, or with only whitespace
\* before or after the first colon, makes the parse return Malformed.
C5_NameAndValueNonEmpty ==
    /\ Parsed =>
        \A i \in 1..Len(result.val.frames[1].headers) :
            /\ Trim(result.val.frames[1].headers[i].name) # <<>>
            /\ Trim(result.val.frames[1].headers[i].value) # <<>>
    /\ (pc = "done" /\ request_line # Unset
            /\ \E i \in 1..Len(HeaderLinesOf(buffer)) :
                    EmptyNameOrValue(HeaderLinesOf(buffer)[i]))
        => result = Malformed

(***************************************************************************)
(* C6                                                                      *)
(***************************************************************************)
\* C6: parse returns a Request only when the first line has exactly three
\* whitespace-separated tokens; a first line with fewer or with more gives
\* Malformed.  (A version token with a bad field is the case of C2 and is
\* left out of the second half.)
C6_ExactlyThreeTokens ==
    /\ Parsed => Len(SplitWhitespace(Lines(buffer)[1])) = 3
    /\ (pc = "done" /\ from_utf8(buffer).kind = "Ok" /\ Len(buffer) > 0
            /\ Len(SplitWhitespace(Lines(buffer)[1])) # 3
            /\ ~BadVersionField(buffer))
        => result = Malformed

(***************************************************************************)
(* C7                                                                      *)
(***************************************************************************)
\* C7: into_bytes returns the start line, then one "name: value\r\n" line per
\* header of all Headers frames in frame-then-list order, then one "\r\n",
\* then the bytes of all Data frames in frame order, whatever the number and
\* order of the frames.
C7_IntoBytesLayout ==
    pc = "serialized" =>
        response = BeginLine(message)
                     \o Concat([i \in 1..Len(AllHeaders(message.frames)) |->
                                  AllHeaders(message.frames)[i].name \o <<":"," ">>
                                    \o AllHeaders(message.frames)[i].value \o <<"\r","\n">>])
                     \o <<"\r","\n">>
                     \o AllData(message.frames)

\* A Data frame stands before a Headers frame with a header, and before
\* another Data frame, both with bytes.
C7_Witness ==
    /\ pc = "serialized"
    /\ Len(message.frames) = 3
    /\ message.frames[1].kind = "Data" /\ message.frames[1].payload # <<>>
    /\ message.frames[2].kind = "Headers" /\ message.frames[2].headers # <<>>
    /\ message.frames[3].kind = "Data" /\ message.frames[3].payload # <<>>

(***************************************************************************)
(* C8                                                                      *)
(***************************************************************************)
\* The arguments of the calls of one operation, in call order.
ArgsOf(log, op) ==
    LET sel == SelectSeq(log, LAMBDA c : c.op = op)
    IN  [i \in 1..Len(sel) |-> sel[i].arg]

\* The argument of the last call of one operation, or a default.
LastArg(log, op, default) ==
    IF ArgsOf(log, op) = <<>> THEN default ELSE ArgsOf(log, op)[Len(ArgsOf(log, op))]

\* C8: after new() and any calls of version, code, header and body, the
\* builder holds (and build() returns, as the frames [Headers, Data] of a
\* Response) the header arguments in call order, the concatenated body
\* arguments, and the last version and code given (1.1 and Success when none).
C8_BuilderAccumulates ==
    LET v == LastArg(calls, "version", [major |-> 1, minor |-> 1])
        c == LastArg(calls, "code", "Success")
        hs == ArgsOf(calls, "header")
        p == Concat(ArgsOf(calls, "body"))
    IN  /\ pc = "builder" =>
              builder = [version |-> v, code |-> c, headers |-> hs, payload |-> p]
        /\ pc = "built" =>
              message = [kind |-> "Response", version |-> v, code |-> c,
                         frames |-> <<[kind |-> "Headers", headers |-> hs],
                                      [kind |-> "Data", payload |-> p]>>]

\* build() after two body calls with different bytes, a header call and a
\* version call.
C8_Witness ==
    /\ pc = "built"
    /\ Len(ArgsOf(calls, "body")) = 2
    /\ \A i \in 1..2 : ArgsOf(calls, "body")[i] # <<>>
    /\ ArgsOf(calls, "body")[1] # ArgsOf(calls, "body")[2]
    /\ Len(ArgsOf(calls, "header")) = 1
    /\ Len(ArgsOf(calls, "version")) = 1
    /\ message.frames[2].payload = ArgsOf(calls, "body")[1] \o ArgsOf(calls, "body")[2]

(***************************************************************************)
(* C9                                                                      *)
(***************************************************************************)
\* C9: a parsed Message starts with its only Headers frame, which holds one
\* Header per non-blank line between the status line and the first blank line
\* (or the end of the input), in line order, same-named ones all kept; with no
\* such line the list is empty and the parse succeeds.
C9_HeadersFollowLines ==
    /\ Parsed =>
        LET fs == result.val.frames
            ls == HeaderLinesOf(buffer)
        IN  /\ Len(fs) >= 1
            /\ fs[1].kind = "Headers"
            /\ \A k \in 2..Len(fs) : fs[k].kind # "Headers"
            /\ Len(fs[1].headers) = Len(ls)
            /\ \A i \in 1..Len(ls) :
                /\ fs[1].headers[i].name = BeforeColon(ls[i])
                /\ fs[1].headers[i] = HeaderOfLine(ls[i])
    /\ (pc = "done" /\ request_line # Unset /\ HeaderLinesOf(buffer) = <<>>)
        => (result.kind = "Ok" /\ result.val.frames[1].headers = <<>>)

\* Two header lines of the same name and different values were parsed.
C9_Witness ==
    /\ Parsed
    /\ Len(HeaderLinesOf(buffer)) = 2
    /\ Len(result.val.frames[1].headers) = 2
    /\ result.val.frames[1].headers[1].name = result.val.frames[1].headers[2].name
    /\ result.val.frames[1].headers[1].value # result.val.frames[1].headers[2].value

(***************************************************************************)
(* C10                                                                     *)
(***************************************************************************)
\* C10: the body is governed by the first header named exactly
\* Content-Length: a parsed Message has a Data frame exactly when there is
\* one, of the length its value gives (or what is left of the input, when
\* that is less); without one the frames are the Headers frame alone; and when
\* its value is no non-negative integer the parse returns Malformed, whatever
\* a later Content-Length says.
C10_FirstContentLengthGoverns ==
    /\ Parsed =>
        LET fs == result.val.frames
            first == FirstNamed(fs[1].headers, <<"C","o","n","t","e","n","t","-","L","e","n","g","t","h">>)
            rest == Concat(BodyLinesOf(buffer))
        IN  IF first = 0
            THEN Len(fs) = 1
            ELSE /\ Len(fs) = 2
                 /\ fs[2].kind = "Data"
                 /\ parse_usize(fs[1].headers[first].value).kind = "Some"
                 /\ fs[2].payload =
                        Take(rest, TakeLen(parse_usize(fs[1].headers[first].value),
                                           Len(rest)))
    /\ (pc = "done" /\ FirstNamed(headers, <<"C","o","n","t","e","n","t","-","L","e","n","g","t","h">>) # 0
            /\ parse_usize(headers[FirstNamed(headers, <<"C","o","n","t","e","n","t","-","L","e","n","g","t","h">>)].value).kind = "None")
        => result = Malformed

\* Two Content-Length headers of different values were parsed, and the
\* payload has the length the first one gives.
C10_Witness ==
    /\ Parsed
    /\ Len(result.val.frames[1].headers) = 2
    /\ result.val.frames[1].headers[1].name = <<"C","o","n","t","e","n","t","-","L","e","n","g","t","h">>
    /\ result.val.frames[1].headers[2].name = <<"C","o","n","t","e","n","t","-","L","e","n","g","t","h">>
    /\ result.val.frames[1].headers[1].value = <<"1">>
    /\ result.val.frames[1].headers[2].value = <<"3">>
    /\ Len(Concat(BodyLinesOf(buffer))) = 3
    /\ Len(result.val.frames[2].payload) = 1

====
